---- MODULE Spec2Model ----
(***************************************************************************)
(* pingen-cli: configuration resolution, access-token management and the   *)
(* letter create / send request sequences.                                 *)
(*                                                                         *)
(* One invocation of the command line is modelled from run() onwards.  A   *)
(* handler is cut into steps at its blocking network calls; the position   *)
(* of the invocation is pc.  The persisted configuration file (disk), the  *)
(* wall clock (now) and the remote services (the responses drawn in each   *)
(* call) are the environment.                                              *)
(***************************************************************************)
EXTENDS Integers, Sequences, FiniteSets, TLC

VARIABLES
    cfg, envCfg, cliCfg,   \* run(): the loaded file, the environment, the flags
    merged, mergeDone,     \* the MergeConfig fold on its own
    disk,        \* the persisted configuration file
    now,         \* last value read from the wall clock
    pc,          \* position of the invocation
    cmd,         \* handler that was dispatched
    ctx,         \* appContext: settings, configLoaded, dryRun
    token,       \* the handler's access token (client.AccessToken)
    filePath,    \* what --file names: "", "absent", "unreadable", "readable"
    badInput,    \* which local inputs of create / send were invalid
    tokenPath,   \* what ensureAccessToken decided and saw
    calls,       \* HTTP requests issued by this invocation, in order
    saves,       \* SaveConfig attempts of this invocation, in order
    exitCode,    \* -1 while running, else the process exit code
    stderr,      \* message given to printError
    stdout,      \* what was emitted on standard output
    call, ret,   \* one function applied on its own: its arguments, its result
    procs        \* two invocations on one configuration file

mergeVars == <<cfg, envCfg, cliCfg, merged, mergeDone>>
flowVars  == <<disk, now, pc, cmd, ctx, token, filePath, badInput,
               tokenPath, calls, saves, exitCode, stderr, stdout>>
vars      == <<cfg, envCfg, cliCfg, merged, mergeDone,
               disk, now, pc, cmd, ctx, token, filePath, badInput,
               tokenPath, calls, saves, exitCode, stderr, stdout,
               call, ret, procs>>
sideVars  == <<call, ret, procs>>

----------------------------------------------------------------------------
(* Bounds *)

\* number of (source, field) pairs that carry a value in the MergeConfig fold
MaxSetFields == 3
\* largest value the wall clock takes
MaxTime == 1

----------------------------------------------------------------------------
(* pingen.Config *)

StringFields == {"Env", "APIBase", "IdentityBase", "OrganisationID",
                 "AccessToken", "ClientID", "ClientSecret"}
Fields == StringFields \cup {"AccessTokenExpiresAt"}

\* Config{}: the zero value of the struct
ZeroConfig ==
    [Env |-> "", APIBase |-> "", IdentityBase |-> "", OrganisationID |-> "",
     AccessToken |-> "", AccessTokenExpiresAt |-> 0,
     ClientID |-> "", ClientSecret |-> ""]

\* the two arguments taken the wrong way round: a value of the base is kept
\* whenever it is set
MergeConfigSwapped(base, override) ==
    [Env |-> IF base.Env # "" THEN base.Env ELSE override.Env,
     APIBase |-> IF base.APIBase # "" THEN base.APIBase ELSE override.APIBase,
     IdentityBase |-> IF base.IdentityBase # ""
                      THEN base.IdentityBase ELSE override.IdentityBase,
     OrganisationID |-> IF base.OrganisationID # ""
                        THEN base.OrganisationID ELSE override.OrganisationID,
     AccessToken |-> IF base.AccessToken # ""
                     THEN base.AccessToken ELSE override.AccessToken,
     AccessTokenExpiresAt |-> IF base.AccessTokenExpiresAt # 0
                              THEN base.AccessTokenExpiresAt
                              ELSE override.AccessTokenExpiresAt,
     ClientID |-> IF base.ClientID # "" THEN base.ClientID ELSE override.ClientID,
     ClientSecret |-> IF base.ClientSecret # ""
                      THEN base.ClientSecret ELSE override.ClientSecret]

MergeConfig(base, override) ==
    [Env |-> IF override.Env # "" THEN override.Env ELSE base.Env,
     APIBase |-> IF override.APIBase # "" THEN override.APIBase ELSE base.APIBase,
     IdentityBase |-> IF override.IdentityBase # ""
                      THEN override.IdentityBase ELSE base.IdentityBase,
     OrganisationID |-> IF override.OrganisationID # ""
                        THEN override.OrganisationID ELSE base.OrganisationID,
     AccessToken |-> IF override.AccessToken # ""
                     THEN override.AccessToken ELSE base.AccessToken,
     AccessTokenExpiresAt |-> IF override.AccessTokenExpiresAt # 0
                              THEN override.AccessTokenExpiresAt
                              ELSE base.AccessTokenExpiresAt,
     ClientID |-> IF override.ClientID # "" THEN override.ClientID ELSE base.ClientID,
     ClientSecret |-> IF override.ClientSecret # ""
                      THEN override.ClientSecret ELSE base.ClientSecret]

----------------------------------------------------------------------------
(* The persisted configuration file *)

\* LoadConfig: (Config, exists, err)
LoadConfig(d) ==
    CASE d.state = "absent"  -> [cfg |-> ZeroConfig, exists |-> FALSE, err |-> FALSE]
      [] d.state = "corrupt" -> [cfg |-> ZeroConfig, exists |-> TRUE, err |-> TRUE]
      [] OTHER               -> [cfg |-> d.cfg, exists |-> TRUE, err |-> FALSE]

\* What the file system lets a SaveConfig do: "ok"; "unchanged" when MkdirAll
\* or OpenFile fails; "truncated" when the Write after O_TRUNC fails.
SaveOutcomes == {"ok", "unchanged", "truncated"}

\* SaveConfig: the file afterwards (the returned error is outcome # "ok")
SaveConfig(d, c, outcome) ==
    CASE outcome = "ok"        -> [state |-> "ok", cfg |-> c]
      [] outcome = "truncated" -> [state |-> "corrupt", cfg |-> ZeroConfig]
      [] OTHER                 -> d

----------------------------------------------------------------------------
(* run(): configuration resolution and dispatch *)

NoEnvironment ==
    [PINGEN_ENV |-> "", PINGEN_API_BASE |-> "", PINGEN_IDENTITY_BASE |-> "",
     PINGEN_ORG_ID |-> "", PINGEN_ACCESS_TOKEN |-> "", PINGEN_CLIENT_ID |-> "",
     PINGEN_CLIENT_SECRET |-> ""]

\* globalOptions as parseGlobal leaves them when no flag is given;
\* clientSecretFile is "", "unreadable", "blank" or "secret" (what the file holds)
NoFlags ==
    [env |-> "", apiBase |-> "", identityBase |-> "", organisationID |-> "",
     accessToken |-> "", clientID |-> "", clientSecret |-> "",
     clientSecretFile |-> "", dryRun |-> FALSE]

configFromEnv(getenv) ==
    [Env |-> getenv.PINGEN_ENV,
     APIBase |-> getenv.PINGEN_API_BASE,
     IdentityBase |-> getenv.PINGEN_IDENTITY_BASE,
     OrganisationID |-> getenv.PINGEN_ORG_ID,
     AccessToken |-> getenv.PINGEN_ACCESS_TOKEN,
     AccessTokenExpiresAt |-> 0,
     ClientID |-> getenv.PINGEN_CLIENT_ID,
     ClientSecret |-> getenv.PINGEN_CLIENT_SECRET]

configFromGlobal(global) ==
    [Env |-> global.env,
     APIBase |-> global.apiBase,
     IdentityBase |-> global.identityBase,
     OrganisationID |-> global.organisationID,
     AccessToken |-> global.accessToken,
     AccessTokenExpiresAt |-> 0,
     ClientID |-> global.clientID,
     ClientSecret |-> global.clientSecret]

\* every empty base URL gets the staging hostname
applyDefaultBasesStaging(c) ==
    [c EXCEPT
        !.APIBase = IF c.APIBase = "" THEN "https://api-staging.pingen.com"
                    ELSE c.APIBase,
        !.IdentityBase = IF c.IdentityBase = "" THEN "https://identity-staging.pingen.com"
                         ELSE c.IdentityBase]

applyDefaultBases(c) ==
    [c EXCEPT
        !.APIBase = IF c.APIBase = ""
                    THEN (IF c.Env = "production" THEN "https://api.pingen.com"
                          ELSE "https://api-staging.pingen.com")
                    ELSE c.APIBase,
        !.IdentityBase = IF c.IdentityBase = ""
                         THEN (IF c.Env = "production" THEN "https://identity.pingen.com"
                               ELSE "https://identity-staging.pingen.com")
                         ELSE c.IdentityBase]

\* os.ReadFile(clientSecretFile): the bytes of the file
ReadSecretFile(f) ==
    CASE f = "secret" -> " secretfile\n"
      [] f = "blank"  -> " \n"
      [] OTHER        -> ""

\* strings.TrimSpace on the texts that occur
TrimSpace(text) ==
    CASE text = " secretfile\n" -> "secretfile"
      [] text = " \n"           -> ""
      [] OTHER                  -> text

\* the file is taken byte for byte
SecretFileContentsRaw(f) == ReadSecretFile(f)

\* strings.TrimSpace(os.ReadFile(clientSecretFile))
SecretFileContents(f) == TrimSpace(ReadSecretFile(f))

NoContext == [settings |-> ZeroConfig, configLoaded |-> FALSE, dryRun |-> FALSE]

\* every environment is let through to the handlers
envSupportedAny(env) == TRUE

\* run(): settings.Env is "staging" or "production"
envSupported(env) == env = "staging" \/ env = "production"

\* run(): the exit code (-1: a handler was dispatched), the message, the output,
\* the handler and its appContext, and the locals cfg, envCfg and cliCfg
run(d, getenv, global, subcommand) ==
    LET loaded    == LoadConfig(d)
        settings0 == MergeConfig(MergeConfig(loaded.cfg, configFromEnv(getenv)),
                                 configFromGlobal(global))
        settings1 == IF global.clientSecretFile # ""
                     THEN [settings0 EXCEPT
                              !.ClientSecret = SecretFileContents(global.clientSecretFile)]
                     ELSE settings0
        settings2 == IF settings1.Env = "" THEN [settings1 EXCEPT !.Env = "staging"]
                     ELSE settings1
        settings3 == applyDefaultBases(settings2)
        early(code, msg, out) ==
            [code |-> code, msg |-> msg, out |-> out, next |-> "exit", ctx |-> NoContext,
             cfg |-> ZeroConfig, envCfg |-> ZeroConfig, cliCfg |-> ZeroConfig]
        stop(code, msg, out) ==
            [code |-> code, msg |-> msg, out |-> out, next |-> "exit", ctx |-> NoContext,
             cfg |-> loaded.cfg, envCfg |-> configFromEnv(getenv),
             cliCfg |-> configFromGlobal(global)]
    IN  IF subcommand = "" THEN early(2, "", "usage")
        ELSE IF loaded.err THEN early(1, "failed to load config", "")
        ELSE IF global.clientSecretFile = "unreadable"
             THEN stop(1, "failed to read client secret file", "")
        ELSE IF ~envSupported(settings2.Env)
             THEN stop(2, "invalid env (use staging or production)", "")
        ELSE IF subcommand \notin {"auth", "config", "org", "letters"}
             THEN stop(2, "", "usage")
        ELSE [code |-> -1, msg |-> "", out |-> "", next |-> subcommand,
              ctx |-> [settings |-> settings3, configLoaded |-> loaded.exists,
                       dryRun |-> global.dryRun],
              cfg |-> loaded.cfg, envCfg |-> configFromEnv(getenv),
              cliCfg |-> configFromGlobal(global)]

----------------------------------------------------------------------------
(* Token Manager: ensureAccessToken *)

\* seconds before the expiry from which a cached token is no longer reused
Skew == 30

\* what a response of the identity service can be: status 0 is a transport
\* error; access_token is Absent when the body has no such string member;
\* expires_in is NoExpiresIn when the body has no such number
Absent == "<absent>"
NoExpiresIn == -1
ExpiresInValues == {Skew + 1}
\* requestID is the X-Request-Id header of the response, "" when it has none
TokenResponses ==
    {[status |-> st, body |-> "empty", requestID |-> "", access_token |-> Absent,
      expires_in |-> NoExpiresIn] : st \in {0, 200, 500}}
    \cup {[status |-> 500, body |-> "empty", requestID |-> "req-1",
           access_token |-> Absent, expires_in |-> NoExpiresIn]}
    \cup {[status |-> 200, body |-> "malformed", requestID |-> "",
           access_token |-> Absent, expires_in |-> NoExpiresIn]}
    \cup {[status |-> 200, body |-> "json", requestID |-> "", access_token |-> tk,
           expires_in |-> e] :
            tk \in {Absent, "", "tok-new"}, e \in {NoExpiresIn} \cup ExpiresInValues}
NoResponse ==
    [status |-> -1, body |-> "empty", requestID |-> "", access_token |-> Absent,
     expires_in |-> NoExpiresIn]

\* tokenPath before ensureAccessToken has run
NoTokenPath ==
    [path |-> "none", at |-> 0, cached |-> "", resp |-> NoResponse, savedAt |-> -1]

\* decodeJSON: an empty body is an empty object, a malformed one an error
DecodeFails(body) == body = "malformed"

\* the error a method of Client returns: msg is "" for nil; api says that it
\* is an APIError, which has a Status and a RequestID
NoError == [msg |-> "", api |-> FALSE, status |-> 0, requestID |-> ""]
TransportError == [NoError EXCEPT !.msg = "transport error"]
DecodeError == [NoError EXCEPT !.msg = "invalid character in response"]
APIError(message, status, requestID) ==
    [msg |-> message, api |-> TRUE, status |-> status, requestID |-> requestID]

\* Client.GetToken: the error
GetToken(resp) ==
    IF resp.status = 0 THEN TransportError
    ELSE IF resp.status # 200
         THEN APIError("token request failed", resp.status, resp.requestID)
    ELSE IF DecodeFails(resp.body) THEN DecodeError
    ELSE NoError

\* the cached token is reused up to and including the instant expiry - Skew
tokenUsableLate(settings, t) ==
    /\ settings.AccessToken # ""
    /\ \/ settings.AccessTokenExpiresAt = 0
       \/ t <= settings.AccessTokenExpiresAt - Skew

\* ensureAccessToken, the reuse test: the clock is read at t
tokenUsable(settings, t) ==
    /\ settings.AccessToken # ""
    /\ \/ settings.AccessTokenExpiresAt = 0
       \/ t < settings.AccessTokenExpiresAt - Skew

\* the request goes out as soon as one of the two credentials is there
credentialsMissingBoth(settings) ==
    settings.ClientID = "" /\ settings.ClientSecret = ""

\* ensureAccessToken, the credentials test
credentialsMissing(settings) ==
    settings.ClientID = "" \/ settings.ClientSecret = ""

\* the token is written back whether or not a file was loaded
writeBackAlways(c) == TRUE

\* ensureAccessToken: the refreshed token is written back
writeBack(c) == c.configLoaded

\* the expiry written is the raw expires_in of the response
refreshedExpiryRelative(t, expires) == expires

\* ensureAccessToken: time.Now().Add(expires_in seconds).Unix()
refreshedExpiry(t, expires) == t + expires

\* a missing access_token is accepted and the empty token is used
accessTokenMissingNever(payload) == FALSE

\* ensureAccessToken: payload["access_token"] is not a non-empty string
accessTokenMissing(payload) ==
    payload.access_token = Absent \/ payload.access_token = ""

\* the record written back is built on the effective settings
writeBackBaseSettings(c, d) == c.settings

\* ensureAccessToken: the record written back is built on the file as
\* LoadConfig returns it, whatever error it gives
writeBackBase(c, d) == LoadConfig(d).cfg

\* ensureAccessToken(&ctx) with the clock read as t1, then t2, the identity
\* service answering resp and the file system letting the save end as outcome:
\* the token, the error, the appContext and the file afterwards, whether the
\* token request went out and whether SaveConfig was called
ensureAccessToken(c, d, t1, resp, t2, outcome) ==
    LET payload == IF resp.body = "json" THEN resp
                   ELSE [resp EXCEPT !.access_token = Absent,
                                     !.expires_in = NoExpiresIn]
        reloaded == writeBackBase(c, d)
        withToken == [reloaded EXCEPT !.AccessToken = payload.access_token]
        toSave == IF payload.expires_in # NoExpiresIn
                  THEN [withToken EXCEPT
                           !.AccessTokenExpiresAt = refreshedExpiry(t2, payload.expires_in)]
                  ELSE withToken
        res(path, tk, err, c2, d2, called, saved) ==
            [path |-> path, token |-> tk, err |-> err, ctx |-> c2, disk |-> d2,
             called |-> called, saved |-> saved]
    IN  IF tokenUsable(c.settings, t1)
        THEN res("reused", c.settings.AccessToken, "", c, d, FALSE, FALSE)
        ELSE IF credentialsMissing(c.settings)
        THEN res("nocredentials", "",
                 "access token required (use --access-token or auth token)",
                 c, d, FALSE, FALSE)
        ELSE IF GetToken(resp) # NoError
        THEN res("requestfailed", "", GetToken(resp).msg, c, d, TRUE, FALSE)
        ELSE IF accessTokenMissing(payload)
        THEN res("tokenmissing", "", "access token missing in response",
                 c, d, TRUE, FALSE)
        ELSE res("refreshed", payload.access_token, "",
                 [c EXCEPT !.settings.AccessToken = payload.access_token],
                 IF writeBack(c) THEN SaveConfig(d, toSave, outcome) ELSE d,
                 TRUE, writeBack(c))

----------------------------------------------------------------------------
(* API Client: one HTTP exchange and its classification.  Each operator    *)
(* gives the error of the Go method, NoError when it returns nil.          *)

\* status 0 stands for a transport error (no response)
Statuses == {0, 200, 201, 204, 404, 500}
Bodies == {"empty", "malformed", "json"}
RequestIDs == {"", "req-1"}
Responses == [status : Statuses, body : Bodies, requestID : RequestIDs]
\* bodies of GET /file-upload: a JSON object without data, without
\* data.attributes, without url or url_signature, or a complete one
SlotBodies == {"empty", "malformed", "nodata", "noattrs", "nourl", "json"}
SlotResponses == [status : Statuses, body : SlotBodies, requestID : RequestIDs]

ListOrganisations(resp) ==
    IF resp.status = 0 THEN TransportError
    ELSE IF resp.status # 200
         THEN APIError("list organisations failed", resp.status, resp.requestID)
    ELSE IF DecodeFails(resp.body) THEN DecodeError
    ELSE NoError

ListLetters(resp) ==
    IF resp.status = 0 THEN TransportError
    ELSE IF resp.status # 200
         THEN APIError("list letters failed", resp.status, resp.requestID)
    ELSE IF DecodeFails(resp.body) THEN DecodeError
    ELSE NoError

GetLetter(resp) ==
    IF resp.status = 0 THEN TransportError
    ELSE IF resp.status # 200
         THEN APIError("get letter failed", resp.status, resp.requestID)
    ELSE IF DecodeFails(resp.body) THEN DecodeError
    ELSE NoError

GetFileUpload(resp) ==
    IF resp.status = 0 THEN TransportError
    ELSE IF resp.status # 200
         THEN APIError("file upload request failed", resp.status, resp.requestID)
    ELSE IF DecodeFails(resp.body) THEN DecodeError
    ELSE IF resp.body \in {"empty", "nodata"}
         THEN APIError("file upload response missing data", resp.status, "")
    ELSE IF resp.body = "noattrs"
         THEN APIError("file upload response missing attributes", resp.status, "")
    ELSE IF resp.body = "nourl"
         THEN APIError("file upload response missing url data", resp.status, "")
    ELSE NoError

\* os.Open of the file fails: UploadFile returns before any request is built
OpenFails(file) == file # "readable"

\* Client.UploadFile: its APIError is built without a RequestID
UploadFile(file, resp) ==
    IF OpenFails(file) THEN [NoError EXCEPT !.msg = "open: permission denied"]
    ELSE IF resp.status = 0 THEN TransportError
    ELSE IF resp.status \notin {200, 201, 204}
         THEN APIError("file upload failed", resp.status, "")
    ELSE NoError

CreateLetter(resp) ==
    IF resp.status = 0 THEN TransportError
    ELSE IF resp.status \notin {200, 201}
         THEN APIError("create letter failed", resp.status, resp.requestID)
    ELSE IF DecodeFails(resp.body) THEN DecodeError
    ELSE NoError

SendLetter(resp) ==
    IF resp.status = 0 THEN TransportError
    ELSE IF resp.status \notin {200, 204}
         THEN APIError("send letter failed", resp.status, resp.requestID)
    ELSE IF resp.body = "empty" THEN NoError
    ELSE IF DecodeFails(resp.body) THEN DecodeError
    ELSE NoError

----------------------------------------------------------------------------
(* Local inputs of letters create / letters send *)

isAllowed(value, allowed) == value \in allowed

DeliveryProducts == {"fast", "cheap", "bulk", "premium", "registered"}
PrintModes == {"simplex", "duplex"}
PrintSpectrums == {"color", "grayscale"}

\* the files a metadata argument can name, by what os.ReadFile gives:
\* an error for "missing.json", else the text
ReadFails(path) == path = "missing.json"
ReadFile(path) ==
    CASE path = "meta.json" -> "{\"a\":1}"
      [] path = "list.json" -> "[1,2]"
      [] path = "null.json" -> "null"
      [] OTHER -> ""

\* parseJSONObject, json.Unmarshal into a map: an object is accepted, the
\* literal null is accepted and leaves the map nil, anything else is an error
parseJSONObject(text) ==
    CASE text = "{\"a\":1}" -> [err |-> "", value |-> "object"]
      [] text = "null"      -> [err |-> "", value |-> "nil"]
      [] OTHER              -> [err |-> "invalid JSON payload", value |-> "nil"]

\* --meta-json is a record: at says that the value starts with "@", text is
\* the value without that prefix; --meta-file is a path, "" when not given
NoMetaJSON == [at |-> FALSE, text |-> ""]

loadJSONInput(metaJSON, metaFile) ==
    IF metaJSON # NoMetaJSON /\ metaFile # ""
    THEN [err |-> "use either --meta-json or --meta-file", value |-> "nil"]
    ELSE IF metaFile # ""
    THEN (IF ReadFails(metaFile) THEN [err |-> "open: no such file", value |-> "nil"]
          ELSE parseJSONObject(ReadFile(metaFile)))
    ELSE IF metaJSON # NoMetaJSON
    THEN (IF metaJSON.at
          THEN (IF ReadFails(metaJSON.text)
                THEN [err |-> "open: no such file", value |-> "nil"]
                ELSE parseJSONObject(ReadFile(metaJSON.text)))
          ELSE parseJSONObject(metaJSON.text))
    ELSE [err |-> "", value |-> "nil"]

\* handleLettersCreate, handleLettersSend: attributes["meta_data"] is set
hasMetaData(meta) == meta.value # "nil"

\* os.Stat of --file fails: the path names nothing.  A file that exists but
\* cannot be opened for reading still has its Stat succeed.
StatFails(file) == file = "absent"

\* what a handler decides before its first call: the exit code (-1: go on to
\* ensureAccessToken), the message and the output
Decision(code, msg, out) == [code |-> code, msg |-> msg, out |-> out]

\* the preview is skipped and the request sequence runs
dryRunIgnored(c) == FALSE

\* ctx.global.dryRun
dryRun(c) == c.dryRun

\* handleLettersCreate up to the call of ensureAccessToken
handleLettersCreate(c, a) ==
    LET meta == loadJSONInput(a.metaJSON, a.metaFile)
    IN  IF c.settings.OrganisationID = "" THEN Decision(2, "organisation id required", "")
        ELSE IF a.file = "" THEN Decision(2, "--file is required", "")
        ELSE IF a.addressPos # "left" /\ a.addressPos # "right"
             THEN Decision(2, "address-position must be left or right", "")
        ELSE IF StatFails(a.file) THEN Decision(2, "file not found", "")
        ELSE IF meta.err # "" THEN Decision(2, meta.err, "")
        ELSE IF a.deliveryProduct # "" /\ ~isAllowed(a.deliveryProduct, DeliveryProducts)
             THEN Decision(2, "invalid delivery-product", "")
        ELSE IF a.printMode # "" /\ ~isAllowed(a.printMode, PrintModes)
             THEN Decision(2, "invalid print-mode", "")
        ELSE IF a.printSpectrum # "" /\ ~isAllowed(a.printSpectrum, PrintSpectrums)
             THEN Decision(2, "invalid print-spectrum", "")
        ELSE IF dryRun(c) THEN Decision(0, "", "preview letters.create")
        ELSE Decision(-1, "", "")

\* handleLettersSend up to the call of ensureAccessToken
handleLettersSend(c, a) ==
    LET meta == loadJSONInput(a.metaJSON, a.metaFile)
    IN  IF c.settings.OrganisationID = "" THEN Decision(2, "organisation id required", "")
        ELSE IF a.letterID = "" THEN Decision(2, "letter id required", "")
        ELSE IF a.deliveryProduct = "" \/ a.printMode = "" \/ a.printSpectrum = ""
             THEN Decision(2, "delivery-product, print-mode, and print-spectrum are required", "")
        ELSE IF ~isAllowed(a.deliveryProduct, DeliveryProducts)
             THEN Decision(2, "invalid delivery-product", "")
        ELSE IF ~isAllowed(a.printMode, PrintModes)
             THEN Decision(2, "invalid print-mode", "")
        ELSE IF ~isAllowed(a.printSpectrum, PrintSpectrums)
             THEN Decision(2, "invalid print-spectrum", "")
        ELSE IF meta.err # "" THEN Decision(2, meta.err, "")
        ELSE IF dryRun(c) THEN Decision(0, "", "preview letters.send")
        ELSE Decision(-1, "", "")

----------------------------------------------------------------------------
(* Query parameters of the list commands *)

\* --filter is a record like --meta-json: at says that the value starts with
\* "@", text is the value without that prefix
NoFilter == [at |-> FALSE, text |-> ""]

\* buildListParams: the map of parameters, a function from the keys that
\* were put into it to their values
buildListParams(page, limit, sort, filter, query, include, fields, resource) ==
    LET put(cond, k, v) == IF cond THEN {<<k, v>>} ELSE {}
        filterValue ==
            IF filter.at
            THEN (IF ReadFails(filter.text) THEN "@" \o filter.text
                  ELSE TrimSpace(ReadFile(filter.text)))
            ELSE filter.text
        pairs ==
            put(page > 0, "page[number]", ToString(page))
            \cup put(limit > 0, "page[limit]", ToString(limit))
            \cup put(sort # "", "sort", sort)
            \cup put(filter # NoFilter, "filter", filterValue)
            \cup put(query # "", "q", query)
            \cup put(include # "", "include", include)
            \cup put(fields # "", "fields[" \o resource \o "]", fields)
    IN  [k \in {pr[1] : pr \in pairs} |-> (CHOOSE pr \in pairs : pr[1] = k)[2]]

\* an endpoint is what url.Parse makes of it: parses is FALSE when it gives
\* an error, query maps each key of the query string to its list of values

\* the parameters with an empty value are set as well
addQuerySetsEmpty(endpoint, params) ==
    IF DOMAIN params = {} THEN endpoint
    ELSE IF ~endpoint.parses THEN endpoint
    ELSE [endpoint EXCEPT !.query =
             [k \in DOMAIN endpoint.query \cup DOMAIN params |->
                 IF k \in DOMAIN params THEN <<params[k]>> ELSE endpoint.query[k]]]

\* addQuery: values.Set for every parameter with a non-empty value
addQuery(endpoint, params) ==
    IF DOMAIN params = {} THEN endpoint
    ELSE IF ~endpoint.parses THEN endpoint
    ELSE LET set == {k \in DOMAIN params : params[k] # ""}
         IN  [endpoint EXCEPT !.query =
                 [k \in DOMAIN endpoint.query \cup set |->
                     IF k \in set THEN <<params[k]>> ELSE endpoint.query[k]]]

\* doRequest: http.NewRequest parses the endpoint again and no request goes
\* out when that fails
requestSent(endpoint) == endpoint.parses

----------------------------------------------------------------------------
(* handleConfig and handleAuth *)

ConfigKeys == {"env", "api_base", "identity_base", "organisation_id",
               "access_token", "client_id", "client_secret"}

KeyField(key) ==
    CASE key = "env" -> "Env"
      [] key = "api_base" -> "APIBase"
      [] key = "identity_base" -> "IdentityBase"
      [] key = "organisation_id" -> "OrganisationID"
      [] key = "access_token" -> "AccessToken"
      [] key = "client_id" -> "ClientID"
      [] OTHER -> "ClientSecret"

\* handleConfig(ctx, args) when the file system lets a save end as outcome
handleConfig(d, args, outcome) ==
    LET loaded == LoadConfig(d)
        res(code, msg, out, d2, saved) ==
            [code |-> code, msg |-> msg, out |-> out, disk |-> d2, saved |-> saved]
        write(c2, out) ==
            IF outcome # "ok"
            THEN res(1, "failed to save config", "", SaveConfig(d, c2, outcome), TRUE)
            ELSE res(0, "", out, SaveConfig(d, c2, outcome), TRUE)
    IN  IF Len(args) = 0 THEN res(2, "", "config requires a subcommand", d, FALSE)
        ELSE IF args[1] = "show"
        THEN (IF loaded.err THEN res(1, "failed to load config", "", d, FALSE)
              ELSE res(0, "", "config", d, FALSE))
        ELSE IF args[1] = "set"
        THEN (IF Len(args) < 3 THEN res(2, "", "config set requires key and value", d, FALSE)
              ELSE IF args[2] \notin ConfigKeys THEN res(2, "", "unknown config key", d, FALSE)
              ELSE write([loaded.cfg EXCEPT ![KeyField(args[2])] = args[3]], "set"))
        ELSE IF args[1] = "unset"
        THEN (IF Len(args) < 2 THEN res(2, "", "config unset requires key", d, FALSE)
              ELSE IF args[2] \notin ConfigKeys THEN res(2, "", "unknown config key", d, FALSE)
              ELSE write([loaded.cfg EXCEPT ![KeyField(args[2])] = ""], "unset"))
        ELSE res(2, "", "unknown config subcommand", d, FALSE)

\* handleAuth(ctx, args) with the flags --save and --save-credentials, the
\* identity service answering resp, the clock read as t and the save ending
\* as outcome
handleAuth(c, d, args, save, saveCreds, resp, t, outcome) ==
    LET payload == IF resp.body = "json" THEN resp
                   ELSE [resp EXCEPT !.access_token = Absent,
                                     !.expires_in = NoExpiresIn]
        cfg0 == [LoadConfig(d).cfg EXCEPT !.Env = c.settings.Env,
                                          !.APIBase = c.settings.APIBase,
                                          !.IdentityBase = c.settings.IdentityBase]
        cfg1 == IF save /\ payload.access_token # Absent
                THEN [cfg0 EXCEPT !.AccessToken = payload.access_token] ELSE cfg0
        cfg2 == IF save /\ payload.expires_in # NoExpiresIn
                THEN [cfg1 EXCEPT !.AccessTokenExpiresAt = t + payload.expires_in]
                ELSE cfg1
        cfg3 == IF saveCreds
                THEN [cfg2 EXCEPT !.ClientID = c.settings.ClientID,
                                  !.ClientSecret = c.settings.ClientSecret]
                ELSE cfg2
        res(code, msg, out, d2, called, saved) ==
            [code |-> code, msg |-> msg, out |-> out, disk |-> d2,
             called |-> called, saved |-> saved]
    IN  IF Len(args) = 0 THEN res(2, "", "auth requires a subcommand", d, FALSE, FALSE)
        ELSE IF args[1] # "token" THEN res(2, "", "unknown auth subcommand", d, FALSE, FALSE)
        ELSE IF c.settings.ClientID = "" \/ c.settings.ClientSecret = ""
        THEN res(2, "client id/secret required", "", d, FALSE, FALSE)
        ELSE IF GetToken(resp) # NoError
        THEN res(1, GetToken(resp).msg, "", d, TRUE, FALSE)
        ELSE IF save \/ saveCreds
        THEN (IF outcome # "ok"
              THEN res(1, "failed to save config", "", SaveConfig(d, cfg3, outcome),
                       TRUE, TRUE)
              ELSE res(0, "", "token", SaveConfig(d, cfg3, outcome), TRUE, TRUE))
        ELSE res(0, "", "token", d, TRUE, FALSE)

----------------------------------------------------------------------------
(* The fold of run(): settings = MergeConfig(MergeConfig(cfg, envCfg), cliCfg) *)

Sources == {"file", "env", "cli"}

\* the value a source gives a field it sets; every source has its own
SourceValue(src, f) ==
    IF f = "AccessTokenExpiresAt"
    THEN (CASE src = "file" -> 1 [] src = "env" -> 2 [] OTHER -> 3)
    ELSE src

ZeroValue(f) == IF f = "AccessTokenExpiresAt" THEN 0 ELSE ""

SourcePairs == Sources \X Fields

RECURSIVE PairSets(_)
PairSets(k) ==
    IF k = 0 THEN {{}}
    ELSE {s \cup t : s \in PairSets(k - 1), t \in {{}} \cup {{p} : p \in SourcePairs}}

\* the Config of source src when exactly the pairs in set carry a value
ConfigOf(src, set) ==
    [f \in Fields |-> IF <<src, f>> \in set THEN SourceValue(src, f) ELSE ZeroValue(f)]

\* nothing is applied on its own and no second invocation runs
NoCall == [fn |-> "none"]
NoRet == [fn |-> "none"]
NoProcs == <<>>
InitSideIdle ==
    /\ call = NoCall
    /\ ret = NoRet
    /\ procs = NoProcs

InitFlowIdle ==
    /\ disk = [state |-> "absent", cfg |-> ZeroConfig]
    /\ now = 0
    /\ pc = "idle"
    /\ cmd = ""
    /\ ctx = NoContext
    /\ token = ""
    /\ filePath = ""
    /\ badInput = {}
    /\ tokenPath = NoTokenPath
    /\ calls = <<>>
    /\ saves = <<>>
    /\ exitCode = -1
    /\ stderr = ""
    /\ stdout = ""

InitMerge ==
    /\ \E set \in PairSets(MaxSetFields) :
          /\ cfg = ConfigOf("file", set)
          /\ envCfg = ConfigOf("env", set)
          /\ cliCfg = ConfigOf("cli", set)
    /\ merged = ZeroConfig
    /\ mergeDone = FALSE
    /\ InitFlowIdle
    /\ InitSideIdle

MergeStep ==
    /\ ~mergeDone
    /\ merged' = MergeConfig(MergeConfig(cfg, envCfg), cliCfg)
    /\ mergeDone' = TRUE
    /\ UNCHANGED <<cfg, envCfg, cliCfg>>
    /\ UNCHANGED flowVars
    /\ UNCHANGED sideVars

NextMerge == MergeStep

SpecMerge == InitMerge /\ [][NextMerge]_vars

----------------------------------------------------------------------------
(* One invocation: inputs *)

\* the configuration files an invocation can find
FlowConfigs ==
    {[ZeroConfig EXCEPT !.OrganisationID = "org-file",
                        !.AccessToken = tk[1], !.AccessTokenExpiresAt = tk[2],
                        !.ClientID = cr[1], !.ClientSecret = cr[2]] :
        tk \in {<<"", 0>>, <<"tok-file", 0>>, <<"tok-file", Skew + 1>>, <<"", Skew + 1>>},
        cr \in {<<"", "">>, <<"id-file", "">>, <<"id-file", "secret-file">>}}
    \cup {ZeroConfig,
          [ZeroConfig EXCEPT !.Env = "production", !.APIBase = "https://api.example"],
          [ZeroConfig EXCEPT !.Env = "bogus"]}

FlowDisks ==
    {[state |-> "absent", cfg |-> ZeroConfig], [state |-> "corrupt", cfg |-> ZeroConfig]}
    \cup {[state |-> "ok", cfg |-> c] : c \in FlowConfigs}

EnvironmentInputs ==
    {NoEnvironment,
     [NoEnvironment EXCEPT !.PINGEN_ACCESS_TOKEN = "tok-env"],
     [NoEnvironment EXCEPT !.PINGEN_ENV = "bogus"],
     [NoEnvironment EXCEPT !.PINGEN_ORG_ID = "org-env", !.PINGEN_CLIENT_ID = "id-env",
                           !.PINGEN_CLIENT_SECRET = "secret-env"]}

FlagInputs ==
    {NoFlags,
     [NoFlags EXCEPT !.accessToken = "tok-cli"],
     [NoFlags EXCEPT !.env = "production"],
     [NoFlags EXCEPT !.env = "bogus"],
     [NoFlags EXCEPT !.identityBase = "https://identity.example"],
     [NoFlags EXCEPT !.clientSecret = "secret-cli"],
     [NoFlags EXCEPT !.organisationID = "org-cli", !.clientID = "id-cli",
                     !.clientSecret = "secret-cli"]}
    \cup {[NoFlags EXCEPT !.clientSecretFile = f] : f \in {"unreadable", "blank", "secret"}}

\* an invocation gives its settings by the environment or by flags
Invocations ==
    {[getenv |-> x[1], global |-> [x[2] EXCEPT !.dryRun = dr]] :
        x \in (EnvironmentInputs \X {NoFlags}) \cup ({NoEnvironment} \X FlagInputs),
        dr \in BOOLEAN}

Subcommands == {"", "auth", "config", "org", "letters", "bogus"}

JSONTexts == {"{\"a\":1}", "[1,2]", "null"}

MetaArgs ==
    {[metaJSON |-> NoMetaJSON, metaFile |-> ""],
     [metaJSON |-> NoMetaJSON, metaFile |-> "meta.json"],
     [metaJSON |-> NoMetaJSON, metaFile |-> "list.json"],
     [metaJSON |-> [at |-> TRUE, text |-> "missing.json"], metaFile |-> ""],
     [metaJSON |-> [at |-> FALSE, text |-> "{\"a\":1}"], metaFile |-> "meta.json"]}
    \cup {[metaJSON |-> [at |-> FALSE, text |-> t], metaFile |-> ""] : t \in JSONTexts}

CreateArgs ==
    {[file |-> f, addressPos |-> ap, deliveryProduct |-> dp, printMode |-> pm,
      printSpectrum |-> ps, metaJSON |-> m.metaJSON, metaFile |-> m.metaFile] :
        f \in {"", "absent", "unreadable", "readable"},
        ap \in {"left", "right", "up"},
        dp \in {"", "fast", "standard"},
        pm \in {"", "duplex", "triplex"},
        ps \in {"", "color", "sepia"},
        m \in MetaArgs}

SendArgs ==
    {[letterID |-> id, deliveryProduct |-> dp, printMode |-> pm,
      printSpectrum |-> ps, metaJSON |-> m.metaJSON, metaFile |-> m.metaFile] :
        id \in {"", "letter-1"},
        dp \in {"", "fast", "standard"},
        pm \in {"", "duplex", "triplex"},
        ps \in {"", "color", "sepia"},
        m \in MetaArgs}

ConfigArgs ==
    {<<>>, <<"show">>, <<"set">>, <<"unset">>, <<"bogus">>,
     <<"set", "bogus", "x">>, <<"unset", "bogus">>,
     <<"set", "env", "production">>, <<"set", "env", "bogus">>,
     <<"set", "access_token", "tok-set">>, <<"set", "client_secret", "secret-set">>,
     <<"unset", "env">>, <<"unset", "access_token">>, <<"unset", "client_id">>}

----------------------------------------------------------------------------
(* One invocation: steps *)

Init ==
    /\ cfg = ZeroConfig /\ envCfg = ZeroConfig /\ cliCfg = ZeroConfig
    /\ merged = ZeroConfig /\ mergeDone = FALSE
    /\ disk \in FlowDisks
    /\ now = 0
    /\ pc = "start"
    /\ cmd = ""
    /\ ctx = NoContext
    /\ token = ""
    /\ filePath = ""
    /\ badInput = {}
    /\ tokenPath = NoTokenPath
    /\ calls = <<>>
    /\ saves = <<>>
    /\ exitCode = -1
    /\ stderr = ""
    /\ stdout = ""
    /\ InitSideIdle

Exit(code, msg, out) ==
    /\ pc' = "exit"
    /\ exitCode' = code
    /\ stderr' = msg
    /\ stdout' = out

Running(next) ==
    /\ pc' = next
    /\ UNCHANGED <<exitCode, stderr, stdout>>

Call(op, ok) == [op |-> op, ok |-> ok]

Run ==
    /\ pc = "start"
    /\ \E in \in Invocations, subcommand \in Subcommands :
          LET r == run(disk, in.getenv, in.global, subcommand)
          IN  /\ ctx' = r.ctx
              /\ cfg' = r.cfg
              /\ envCfg' = r.envCfg
              /\ cliCfg' = r.cliCfg
              /\ IF r.code = -1
                 THEN Running(CASE r.next = "auth" -> "handleAuth"
                                [] r.next = "config" -> "handleConfig"
                                [] r.next = "org" -> "handleOrg"
                                [] OTHER -> "handleLetters")
                 ELSE Exit(r.code, r.msg, r.out)
    /\ UNCHANGED <<disk, now, cmd, token, filePath, badInput, tokenPath, calls, saves>>
    /\ UNCHANGED <<merged, mergeDone>>
    /\ UNCHANGED sideVars

HandleConfig ==
    /\ pc = "handleConfig"
    /\ \E args \in ConfigArgs, outcome \in SaveOutcomes :
          LET r == handleConfig(disk, args, outcome)
          IN  /\ disk' = r.disk
              /\ saves' = IF r.saved THEN Append(saves, outcome) ELSE saves
              /\ Exit(r.code, r.msg, r.out)
    /\ cmd' = "handleConfig"
    /\ UNCHANGED <<now, ctx, token, filePath, badInput, tokenPath, calls>>
    /\ UNCHANGED mergeVars
    /\ UNCHANGED sideVars

HandleAuth ==
    /\ pc = "handleAuth"
    /\ \E args \in {<<>>, <<"token">>, <<"bogus">>}, save \in BOOLEAN, saveCreds \in BOOLEAN,
          resp \in TokenResponses, t \in now..MaxTime, outcome \in SaveOutcomes :
          LET r == handleAuth(ctx, disk, args, save, saveCreds, resp, t, outcome)
          IN  /\ disk' = r.disk
              /\ saves' = IF r.saved THEN Append(saves, outcome) ELSE saves
              /\ calls' = IF r.called THEN Append(calls, Call("GetToken", GetToken(resp) = NoError))
                          ELSE calls
              /\ now' = IF r.saved /\ save /\ resp.expires_in # NoExpiresIn THEN t ELSE now
              /\ Exit(r.code, r.msg, r.out)
    /\ cmd' = "handleAuth"
    /\ UNCHANGED <<ctx, token, filePath, badInput, tokenPath>>
    /\ UNCHANGED mergeVars
    /\ UNCHANGED sideVars

HandleOrg ==
    /\ pc = "handleOrg"
    /\ \E args \in {<<>>, <<"list">>, <<"bogus">>} :
          IF Len(args) = 0 THEN Exit(2, "", "org requires a subcommand")
          ELSE IF args[1] # "list" THEN Exit(2, "", "unknown org subcommand")
          ELSE Running("ensureAccessToken")
    /\ cmd' = "handleOrg"
    /\ UNCHANGED <<disk, now, ctx, token, filePath, badInput, tokenPath, calls, saves>>
    /\ UNCHANGED mergeVars
    /\ UNCHANGED sideVars

HandleLetters ==
    /\ pc = "handleLetters"
    /\ \E args \in {<<>>, <<"list">>, <<"get">>, <<"create">>, <<"send">>, <<"bogus">>} :
          IF Len(args) = 0 THEN Exit(2, "", "letters requires a subcommand")
          ELSE IF args[1] = "list" THEN Running("handleLettersList")
          ELSE IF args[1] = "get" THEN Running("handleLettersGet")
          ELSE IF args[1] = "create" THEN Running("handleLettersCreate")
          ELSE IF args[1] = "send" THEN Running("handleLettersSend")
          ELSE Exit(2, "", "unknown letters subcommand")
    /\ cmd' = "handleLetters"
    /\ UNCHANGED <<disk, now, ctx, token, filePath, badInput, tokenPath, calls, saves>>
    /\ UNCHANGED mergeVars
    /\ UNCHANGED sideVars

HandleLettersList ==
    /\ pc = "handleLettersList"
    /\ IF ctx.settings.OrganisationID = "" THEN Exit(2, "organisation id required", "")
       ELSE Running("ensureAccessToken")
    /\ cmd' = "handleLettersList"
    /\ UNCHANGED <<disk, now, ctx, token, filePath, badInput, tokenPath, calls, saves>>
    /\ UNCHANGED mergeVars
    /\ UNCHANGED sideVars

HandleLettersGet ==
    /\ pc = "handleLettersGet"
    /\ \E args \in {<<>>, <<"letter-1">>} :
          IF ctx.settings.OrganisationID = "" THEN Exit(2, "organisation id required", "")
          ELSE IF Len(args) = 0 THEN Exit(2, "", "letters get requires a letter id")
          ELSE Running("ensureAccessToken")
    /\ cmd' = "handleLettersGet"
    /\ UNCHANGED <<disk, now, ctx, token, filePath, badInput, tokenPath, calls, saves>>
    /\ UNCHANGED mergeVars
    /\ UNCHANGED sideVars

\* the metadata arguments are in conflict, name a file that cannot be read, or
\* give a text that is not JSON or is a JSON array
MetaInvalid(a) ==
    \/ a.metaJSON # NoMetaJSON /\ a.metaFile # ""
    \/ a.metaFile # "" /\ (ReadFails(a.metaFile) \/ ReadFile(a.metaFile) # "{\"a\":1}")
    \/ /\ a.metaJSON # NoMetaJSON
       /\ a.metaJSON.at
       /\ (ReadFails(a.metaJSON.text) \/ ReadFile(a.metaJSON.text) # "{\"a\":1}")
    \/ a.metaJSON # NoMetaJSON /\ ~a.metaJSON.at /\ a.metaJSON.text \notin {"{\"a\":1}", "null"}

\* the local inputs of letters create that are not valid
InvalidCreateInputs(a) ==
    {x \in {"file", "address-position", "delivery-product", "print-mode",
            "print-spectrum", "meta"} :
        \/ x = "file" /\ a.file # "readable"
        \/ x = "address-position" /\ a.addressPos \notin {"left", "right"}
        \/ x = "delivery-product" /\ a.deliveryProduct \notin DeliveryProducts \cup {""}
        \/ x = "print-mode" /\ a.printMode \notin PrintModes \cup {""}
        \/ x = "print-spectrum" /\ a.printSpectrum \notin PrintSpectrums \cup {""}
        \/ x = "meta" /\ MetaInvalid(a)}

\* the local inputs of letters send that are not valid
InvalidSendInputs(a) ==
    {x \in {"letter-id", "delivery-product", "print-mode", "print-spectrum", "meta"} :
        \/ x = "letter-id" /\ a.letterID = ""
        \/ x = "delivery-product" /\ a.deliveryProduct \notin DeliveryProducts
        \/ x = "print-mode" /\ a.printMode \notin PrintModes
        \/ x = "print-spectrum" /\ a.printSpectrum \notin PrintSpectrums
        \/ x = "meta" /\ MetaInvalid(a)}

HandleLettersCreate ==
    /\ pc = "handleLettersCreate"
    /\ \E a \in CreateArgs :
          LET r == handleLettersCreate(ctx, a)
          IN  /\ filePath' = a.file
              /\ badInput' = InvalidCreateInputs(a)
              /\ IF r.code = -1 THEN Running("ensureAccessToken")
                 ELSE Exit(r.code, r.msg, r.out)
    /\ cmd' = "handleLettersCreate"
    /\ UNCHANGED <<disk, now, ctx, token, tokenPath, calls, saves>>
    /\ UNCHANGED mergeVars
    /\ UNCHANGED sideVars

HandleLettersSend ==
    /\ pc = "handleLettersSend"
    /\ \E a \in SendArgs :
          LET r == handleLettersSend(ctx, a)
          IN  /\ badInput' = InvalidSendInputs(a)
              /\ IF r.code = -1 THEN Running("ensureAccessToken")
                 ELSE Exit(r.code, r.msg, r.out)
    /\ cmd' = "handleLettersSend"
    /\ UNCHANGED <<disk, now, ctx, token, filePath, tokenPath, calls, saves>>
    /\ UNCHANGED mergeVars
    /\ UNCHANGED sideVars

\* the upload slot is not requested: the upload follows the token at once
afterTokenNoSlot(handler) ==
    CASE handler = "handleOrg" -> "ListOrganisations"
      [] handler = "handleLettersList" -> "ListLetters"
      [] handler = "handleLettersGet" -> "GetLetter"
      [] handler = "handleLettersCreate" -> "UploadFile"
      [] OTHER -> "SendLetter"

\* the call a handler makes once ensureAccessToken has returned a token
afterToken(handler) ==
    CASE handler = "handleOrg" -> "ListOrganisations"
      [] handler = "handleLettersList" -> "ListLetters"
      [] handler = "handleLettersGet" -> "GetLetter"
      [] handler = "handleLettersCreate" -> "GetFileUpload"
      [] OTHER -> "SendLetter"

EnsureAccessToken ==
    /\ pc = "ensureAccessToken"
    /\ \E t1 \in now..MaxTime, resp \in TokenResponses, outcome \in SaveOutcomes :
       \E t2 \in t1..MaxTime :
          LET r == ensureAccessToken(ctx, disk, t1, resp, t2, outcome)
              clockRead == ctx.settings.AccessToken # ""
                           /\ ctx.settings.AccessTokenExpiresAt # 0
          IN  /\ ctx' = r.ctx
              /\ disk' = r.disk
              /\ token' = r.token
              /\ calls' = IF r.called THEN Append(calls, Call("GetToken", r.err = ""))
                          ELSE calls
              /\ saves' = IF r.saved THEN Append(saves, outcome) ELSE saves
              /\ now' = IF r.saved /\ resp.expires_in # NoExpiresIn THEN t2
                        ELSE IF clockRead THEN t1 ELSE now
              /\ tokenPath' = [path |-> r.path,
                               at |-> IF clockRead THEN t1 ELSE now,
                               cached |-> ctx.settings.AccessToken,
                               resp |-> IF r.called THEN resp ELSE NoResponse,
                               savedAt |-> IF r.saved /\ resp.expires_in # NoExpiresIn
                                           THEN t2 ELSE -1]
              /\ IF r.err = "" THEN Running(afterToken(cmd))
                 ELSE Exit(1, r.err, "")
    /\ UNCHANGED <<cmd, filePath, badInput>>
    /\ UNCHANGED mergeVars
    /\ UNCHANGED sideVars

\* a handler's single call after the token: the listing and fetching handlers
Finish(op, err) ==
    /\ calls' = Append(calls, Call(op, err = ""))
    /\ IF err = "" THEN Exit(0, "", "response") ELSE Exit(1, err, "")
    /\ UNCHANGED <<disk, now, cmd, ctx, token, filePath, badInput, tokenPath, saves>>
    /\ UNCHANGED mergeVars
    /\ UNCHANGED sideVars

StepListOrganisations ==
    /\ pc = "ListOrganisations"
    /\ \E resp \in Responses : Finish("ListOrganisations", ListOrganisations(resp).msg)

StepListLetters ==
    /\ pc = "ListLetters"
    /\ \E resp \in Responses : Finish("ListLetters", ListLetters(resp).msg)

StepGetLetter ==
    /\ pc = "GetLetter"
    /\ \E resp \in Responses : Finish("GetLetter", GetLetter(resp).msg)

StepGetFileUpload ==
    /\ pc = "GetFileUpload"
    /\ \E resp \in SlotResponses :
          LET err == GetFileUpload(resp).msg
          IN  /\ calls' = Append(calls, Call("GetFileUpload", err = ""))
              /\ IF err = "" THEN Running("UploadFile") ELSE Exit(1, err, "")
    /\ UNCHANGED <<disk, now, cmd, ctx, token, filePath, badInput, tokenPath, saves>>
    /\ UNCHANGED mergeVars
    /\ UNCHANGED sideVars

\* the letter is created whatever became of the upload
uploadAbortsNever(err) == FALSE

\* handleLettersCreate: an error of UploadFile ends the command
uploadAborts(err) == err # ""

StepUploadFile ==
    /\ pc = "UploadFile"
    /\ \E resp \in Responses :
          LET err == UploadFile(filePath, resp).msg
          IN  /\ calls' = IF OpenFails(filePath) THEN calls
                          ELSE Append(calls, Call("UploadFile", err = ""))
              /\ IF uploadAborts(err) THEN Exit(1, err, "") ELSE Running("CreateLetter")
    /\ UNCHANGED <<disk, now, cmd, ctx, token, filePath, badInput, tokenPath, saves>>
    /\ UNCHANGED mergeVars
    /\ UNCHANGED sideVars

StepCreateLetter ==
    /\ pc = "CreateLetter"
    /\ \E resp \in Responses : Finish("CreateLetter", CreateLetter(resp).msg)

StepSendLetter ==
    /\ pc = "SendLetter"
    /\ \E resp \in Responses : Finish("SendLetter", SendLetter(resp).msg)

Next ==
    \/ Run
    \/ HandleConfig
    \/ HandleAuth
    \/ HandleOrg
    \/ HandleLetters
    \/ HandleLettersList
    \/ HandleLettersGet
    \/ HandleLettersCreate
    \/ HandleLettersSend
    \/ EnsureAccessToken
    \/ StepListOrganisations
    \/ StepListLetters
    \/ StepGetLetter
    \/ StepGetFileUpload
    \/ StepUploadFile
    \/ StepCreateLetter
    \/ StepSendLetter

Spec == Init /\ [][Next]_vars

TypeOK ==
    /\ disk.state \in {"absent", "corrupt", "ok"}
    /\ now \in 0..MaxTime
    /\ exitCode \in {-1, 0, 1, 2}
    /\ (pc = "exit") = (exitCode # -1)

----------------------------------------------------------------------------
(* Functions applied on their own: call holds the function and its         *)
(* arguments, ret its result.                                              *)

\* the settings applyDefaultBases can be given
BaseInputs ==
    {[ZeroConfig EXCEPT !.Env = e, !.APIBase = a, !.IdentityBase = i] :
        e \in {"", "staging", "production", "bogus"},
        a \in {"", "https://api.example"},
        i \in {"", "https://identity.example"}}

\* the flags of FlagInputs, each with and without --client-secret-file
SecretFlagInputs ==
    {[g EXCEPT !.clientSecretFile = f] :
        g \in FlagInputs, f \in {"", "unreadable", "blank", "secret"}}

RunEnvironments ==
    EnvironmentInputs
    \cup {[NoEnvironment EXCEPT !.PINGEN_ENV = "production",
                                !.PINGEN_API_BASE = "https://api.env"],
          [NoEnvironment EXCEPT !.PINGEN_CLIENT_SECRET = "secret-env"]}

\* the methods of Client that make one HTTP exchange
Operations == {"GetToken", "ListOrganisations", "ListLetters", "GetLetter",
               "GetFileUpload", "UploadFile", "CreateLetter", "SendLetter"}

\* the error the method op returns when the server answers resp
Classify(op, resp) ==
    CASE op = "GetToken"          -> GetToken(resp)
      [] op = "ListOrganisations" -> ListOrganisations(resp)
      [] op = "ListLetters"       -> ListLetters(resp)
      [] op = "GetLetter"         -> GetLetter(resp)
      [] op = "GetFileUpload"     -> GetFileUpload(resp)
      [] op = "UploadFile"        -> UploadFile("readable", resp)
      [] op = "CreateLetter"      -> CreateLetter(resp)
      [] OTHER                    -> SendLetter(resp)

\* texts of --meta-json: an object, an array, a scalar, null, malformed text
MetaTexts == JSONTexts \cup {"42", "{oops"}
\* files of --meta-file and --meta-json @file: empty.json holds nothing
MetaFiles == {"meta.json", "list.json", "null.json", "empty.json", "missing.json"}

\* the arguments of letters list
ListArgs ==
    [page : {-1, 0, 2}, limit : {-1, 0, 5}, sort : {"", "-created_at"},
     filter : {NoFilter, [at |-> FALSE, text |-> "{\"status\":\"sent\"}"],
               [at |-> TRUE, text |-> "meta.json"], [at |-> TRUE, text |-> "empty.json"],
               [at |-> TRUE, text |-> "missing.json"]},
     q : {"", "invoice"}, include : {"", "organisation"}, fields : {"", "status"}]

\* the endpoints a list request can be built on: without a query string, with
\* one, with one that has an empty value, and one that does not parse
Endpoints ==
    {[parses |-> TRUE, query |-> <<>>],
     [parses |-> TRUE, query |-> ("sort" :> <<"name", "id">>) @@ ("key" :> <<"k1">>)],
     [parses |-> TRUE, query |-> ("q" :> <<"">>)],
     [parses |-> FALSE, query |-> <<>>]}

FnCalls ==
    {[fn |-> "applyDefaultBases", cfg |-> c] : c \in BaseInputs}
    \cup {[fn |-> "listQuery", args |-> a, endpoint |-> e] :
            a \in ListArgs, e \in Endpoints}
    \cup {[fn |-> "loadJSONInput", metaJSON |-> mj, metaFile |-> mf] :
            mj \in {NoMetaJSON} \cup {[at |-> FALSE, text |-> t] : t \in MetaTexts}
                                \cup {[at |-> TRUE, text |-> f] : f \in MetaFiles},
            mf \in {""} \cup MetaFiles}
    \cup {[fn |-> "api", op |-> op, resp |-> r] :
            op \in Operations \ {"GetFileUpload"}, r \in Responses}
    \cup {[fn |-> "api", op |-> "GetFileUpload", resp |-> r] : r \in SlotResponses}
    \cup {[fn |-> "run", d |-> d, getenv |-> e, global |-> g, subcommand |-> sc] :
            d \in FlowDisks, e \in RunEnvironments, g \in SecretFlagInputs,
            sc \in {"org", "bogus"}}

InitFn ==
    /\ call \in FnCalls
    /\ ret = NoRet
    /\ procs = NoProcs
    /\ cfg = ZeroConfig /\ envCfg = ZeroConfig /\ cliCfg = ZeroConfig
    /\ merged = ZeroConfig /\ mergeDone = FALSE
    /\ InitFlowIdle

\* the function named fn returns result
Return(fn, result) ==
    /\ call.fn = fn
    /\ ret = NoRet
    /\ ret' = result
    /\ UNCHANGED <<call, procs>>
    /\ UNCHANGED mergeVars
    /\ UNCHANGED flowVars

ApplyDefaultBases ==
    /\ call.fn = "applyDefaultBases"
    /\ Return("applyDefaultBases",
              [fn |-> "applyDefaultBases", cfg |-> applyDefaultBases(call.cfg)])

RunOnce ==
    /\ call.fn = "run"
    /\ Return("run", [fn |-> "run",
                      res |-> run(call.d, call.getenv, call.global, call.subcommand)])

Exchange ==
    /\ call.fn = "api"
    /\ Return("api", [fn |-> "api", err |-> Classify(call.op, call.resp)])

LoadJSONInput ==
    /\ call.fn = "loadJSONInput"
    /\ LET meta == loadJSONInput(call.metaJSON, call.metaFile)
       IN  Return("loadJSONInput",
                  [fn |-> "loadJSONInput", meta |-> meta, metaData |-> hasMetaData(meta)])

\* handleLettersList and Client.ListLetters up to the request
ListQuery ==
    /\ call.fn = "listQuery"
    /\ LET a == call.args
           params == buildListParams(a.page, a.limit, a.sort, a.filter, a.q,
                                     a.include, a.fields, "letters")
           url == addQuery(call.endpoint, params)
       IN  Return("listQuery", [fn |-> "listQuery", params |-> params, url |-> url,
                                sent |-> requestSent(url)])

NextFn ==
    \/ LoadJSONInput
    \/ ListQuery
    \/ ApplyDefaultBases
    \/ RunOnce
    \/ Exchange

SpecFn == InitFn /\ [][NextFn]_vars

----------------------------------------------------------------------------
(* Two invocations on one configuration file.  Each reads the file in      *)
(* run(), reads it again in its handler (LoadConfig) and writes the whole  *)
(* record (SaveConfig); nothing orders the steps of the one against the    *)
(* steps of the other.  procs.inv is the state of the two invocations,     *)
(* procs.attempts the calls of SaveConfig in the order they were made.     *)

Invs == {1, 2}

\* what an invocation is asked to do: auth is auth token --save
RaceOps ==
    {[cmd |-> "config", args |-> <<"set", "organisation_id", "org-set">>],
     [cmd |-> "config", args |-> <<"set", "env", "production">>],
     [cmd |-> "config", args |-> <<"unset", "client_secret">>],
     [cmd |-> "auth", args |-> <<"token">>],
     [cmd |-> "org", args |-> <<"list">>]}

\* the file the two invocations find
RaceDisks ==
    {[state |-> "ok",
      cfg |-> [ZeroConfig EXCEPT !.OrganisationID = "org-file", !.ClientID = "id-file",
                                 !.ClientSecret = "secret-file"]],
     [state |-> "ok",
      cfg |-> [ZeroConfig EXCEPT !.OrganisationID = "org-file"]]}

\* the identity service gives every invocation a token of its own
RaceResponse(p) ==
    [status |-> 200, body |-> "json", requestID |-> "",
     access_token |-> IF p = 1 THEN "tok-1" ELSE "tok-2", expires_in |-> Skew + 1]

NoDisk == [state |-> "absent", cfg |-> ZeroConfig]

\* the handler of op gets as far as its LoadConfig
reachesLoad(op, c, p) ==
    CASE op.cmd = "config" -> TRUE
      [] op.cmd = "auth" ->
            handleAuth(c, NoDisk, op.args, TRUE, FALSE, RaceResponse(p), 0, "ok").saved
      [] OTHER -> ensureAccessToken(c, NoDisk, 0, RaceResponse(p), 0, "ok").saved

\* the record the handler of op hands to SaveConfig when its LoadConfig
\* found the file as d
recordToSave(op, c, d, p) ==
    CASE op.cmd = "config" -> handleConfig(d, op.args, "ok").disk.cfg
      [] op.cmd = "auth" ->
            handleAuth(c, d, op.args, TRUE, FALSE, RaceResponse(p), 0, "ok").disk.cfg
      [] OTHER -> ensureAccessToken(c, d, 0, RaceResponse(p), 0, "ok").disk.cfg

\* the file is held from the read to the write: the record is built on the
\* file as it is at the write
readForWriteLocked(seen, d) == d

\* the record is built on what LoadConfig returned, whatever the file is now
readForWrite(seen, d) == seen

InitRace ==
    /\ disk \in RaceDisks
    /\ procs \in [inv : [Invs -> [pc : {"run"}, op : RaceOps, ctx : {NoContext},
                                  seen : {NoDisk}, seenAt : {0}]],
                  attempts : {<<>>}]
    /\ call = NoCall
    /\ ret = NoRet
    /\ cfg = ZeroConfig /\ envCfg = ZeroConfig /\ cliCfg = ZeroConfig
    /\ merged = ZeroConfig /\ mergeDone = FALSE
    /\ now = 0
    /\ pc = "idle"
    /\ cmd = ""
    /\ ctx = NoContext
    /\ token = ""
    /\ filePath = ""
    /\ badInput = {}
    /\ tokenPath = NoTokenPath
    /\ calls = <<>>
    /\ saves = <<>>
    /\ exitCode = -1
    /\ stderr = ""
    /\ stdout = ""

RaceFrame ==
    /\ UNCHANGED <<call, ret>>
    /\ UNCHANGED mergeVars
    /\ UNCHANGED <<now, pc, cmd, ctx, token, filePath, badInput,
                   tokenPath, calls, saves, exitCode, stderr, stdout>>

\* run() of invocation p, and its handler up to LoadConfig
RaceRun(p) ==
    /\ procs.inv[p].pc = "run"
    /\ LET me == procs.inv[p]
           r == run(disk, NoEnvironment, NoFlags, me.op.cmd)
           next == IF r.code = -1 /\ reachesLoad(me.op, r.ctx, p) THEN "load" ELSE "done"
       IN  procs' = [procs EXCEPT !.inv[p] = [me EXCEPT !.pc = next, !.ctx = r.ctx]]
    /\ UNCHANGED disk
    /\ RaceFrame

\* LoadConfig in the handler of invocation p
RaceLoad(p) ==
    /\ procs.inv[p].pc = "load"
    /\ procs' = [procs EXCEPT !.inv[p].pc = "save",
                              !.inv[p].seen = disk,
                              !.inv[p].seenAt = Len(procs.attempts)]
    /\ UNCHANGED disk
    /\ RaceFrame

\* SaveConfig in the handler of invocation p
RaceSave(p) ==
    /\ procs.inv[p].pc = "save"
    /\ \E outcome \in SaveOutcomes :
          LET me == procs.inv[p]
              record == recordToSave(me.op, me.ctx, readForWrite(me.seen, disk), p)
          IN  /\ disk' = SaveConfig(disk, record, outcome)
              /\ procs' = [procs EXCEPT
                              !.inv[p].pc = "done",
                              !.attempts = Append(@, [p |-> p, outcome |-> outcome,
                                                      cfg |-> record])]
    /\ RaceFrame

NextRace ==
    \/ \E p \in Invs : RaceRun(p)
    \/ \E p \in Invs : RaceLoad(p)
    \/ \E p \in Invs : RaceSave(p)

SpecRace == InitRace /\ [][NextRace]_vars

----------------------------------------------------------------------------
(* Claims *)

\* C1: after the fold every field holds the CLI value when that is non-empty
\* (non-zero for the expiry), else the environment value when non-empty, else
\* the file value, else the zero value that stands for "take the default".
C1_MergePrecedence ==
    mergeDone =>
        \A f \in Fields :
            merged[f] = IF cliCfg[f] # ZeroValue(f) THEN cliCfg[f]
                        ELSE IF envCfg[f] # ZeroValue(f) THEN envCfg[f]
                        ELSE IF cfg[f] # ZeroValue(f) THEN cfg[f]
                        ELSE ZeroValue(f)

\* some field is set by all three sources and another field by nobody
C1_Witness ==
    /\ mergeDone
    /\ \E f \in Fields :
          /\ cfg[f] # ZeroValue(f)
          /\ envCfg[f] # ZeroValue(f)
          /\ cliCfg[f] # ZeroValue(f)
          /\ merged[f] = cliCfg[f]
    /\ \E f \in Fields : merged[f] = ZeroValue(f)

----------------------------------------------------------------------------
(* Properties of one invocation *)

Ops == [i \in 1..Len(calls) |-> calls[i].op]
HasCall(op) == \E i \in 1..Len(calls) : calls[i].op = op
AllOK == \A i \in 1..Len(calls) : calls[i].ok

\* ensureAccessToken has returned in this invocation
TokenDecided == tokenPath.path # "none"

\* the cached token and its expiry as ensureAccessToken found them, and the
\* clock value it compared with
CachedToken == tokenPath.cached
CachedExpiry == ctx.settings.AccessTokenExpiresAt
Fresh == CachedExpiry = 0 \/ tokenPath.at < CachedExpiry - 30

\* the positions right after ensureAccessToken has returned a token
FirstCalls == {"ListOrganisations", "ListLetters", "GetLetter", "GetFileUpload",
               "SendLetter"}

Reused ==
    /\ tokenPath.path = "reused"
    /\ token = CachedToken
    /\ ~HasCall("GetToken")
    /\ pc \in FirstCalls => calls = <<>>

\* C2 as stated: with a cached token, a fresh one is reused without a network
\* call, and one that is not fresh is not returned and the token request is
\* made.
C2_Original ==
    (TokenDecided /\ CachedToken # "") =>
        IF Fresh THEN Reused
        ELSE token # CachedToken /\ HasCall("GetToken")

\* C2 amended: with a cached token, a fresh one is reused without a network
\* call; one that is not fresh is not returned, and the token request is made
\* exactly when the client id and the client secret are both set (without
\* them the call fails and no request goes out).
C2_TokenReuse ==
    (TokenDecided /\ CachedToken # "") =>
        IF Fresh THEN Reused
        ELSE /\ token # CachedToken
             /\ tokenPath.path # "reused"
             /\ HasCall("GetToken") =
                    (ctx.settings.ClientID # "" /\ ctx.settings.ClientSecret # "")

\* a token whose expiry is exactly 30 seconds away is refreshed
C2_Witness ==
    /\ CachedToken # ""
    /\ CachedExpiry # 0
    /\ tokenPath.at = CachedExpiry - 30
    /\ tokenPath.path = "refreshed"
    /\ HasCall("GetToken")

CreateSequence == <<"GetToken", "GetFileUpload", "UploadFile", "CreateLetter">>

\* C3: a live letters create without a usable cached token issues its calls in
\* the order token, upload slot, upload, creation, each only after the one
\* before has succeeded, and has made exactly these four when it succeeds.
C3_CreateSequence ==
    (cmd = "handleLettersCreate" /\ TokenDecided /\ tokenPath.path # "reused") =>
        /\ Len(calls) <= 4
        /\ \A i \in 1..Len(calls) : calls[i].op = CreateSequence[i]
        /\ \A i \in 1..(Len(calls) - 1) : calls[i].ok
        /\ (pc = "exit" /\ exitCode = 0) => (Len(calls) = 4 /\ AllOK)

C3_Witness ==
    /\ cmd = "handleLettersCreate"
    /\ tokenPath.path = "refreshed"
    /\ ~ctx.dryRun
    /\ pc = "exit" /\ exitCode = 0
    /\ Ops = CreateSequence

\* C4 as stated: in letters create and letters send an invalid local input
\* (a --file that is missing, absent or unreadable among them) ends the
\* command before any network call is made.
C4_ValidationBeforeNetwork ==
    (cmd \in {"handleLettersCreate", "handleLettersSend"} /\ badInput # {}) =>
        calls = <<>>

\* C5: under dry-run, letters create and letters send make no network call and
\* no write of the configuration, and with valid inputs end with a preview.
C5_DryRun ==
    (cmd \in {"handleLettersCreate", "handleLettersSend"} /\ ctx.dryRun) =>
        /\ calls = <<>>
        /\ saves = <<>>
        /\ ~TokenDecided
        /\ pc = "exit"
        /\ (badInput = {} /\ ctx.settings.OrganisationID # "") =>
              /\ exitCode = 0
              /\ stdout = (IF cmd = "handleLettersCreate" THEN "preview letters.create"
                           ELSE "preview letters.send")

C5_Witness ==
    /\ cmd = "handleLettersSend"
    /\ ctx.dryRun
    /\ badInput = {}
    /\ stdout = "preview letters.send"
    /\ ctx.settings.ClientID # ""

\* C6: the first call that fails is the last call of the invocation, and no
\* call is issued twice.
C6_FailureIsTerminal ==
    /\ \A i \in 1..(Len(calls) - 1) : calls[i].ok
    /\ (calls # <<>> /\ ~calls[Len(calls)].ok) => pc = "exit" /\ exitCode = 1
    /\ \A i, j \in 1..Len(calls) : calls[i].op = calls[j].op => i = j

\* a failed upload ended the command
C6_Witness ==
    /\ cmd = "handleLettersCreate"
    /\ pc = "exit"
    /\ Len(calls) = 3
    /\ calls[3] = [op |-> "UploadFile", ok |-> FALSE]

\* C7: when the cached token cannot be reused and the client id or the client
\* secret is empty, ensureAccessToken fails with its configuration error and
\* there is no network call and no write of the configuration.
C7_CredentialsRequired ==
    (/\ TokenDecided
     /\ ~(CachedToken # "" /\ Fresh)
     /\ (ctx.settings.ClientID = "" \/ ctx.settings.ClientSecret = "")) =>
        /\ tokenPath.path = "nocredentials"
        /\ pc = "exit" /\ exitCode = 1
        /\ stderr = "access token required (use --access-token or auth token)"
        /\ calls = <<>>
        /\ saves = <<>>

\* an expired token, a client id and no client secret
C7_Witness ==
    /\ tokenPath.path = "nocredentials"
    /\ CachedToken # ""
    /\ ctx.settings.ClientID # ""
    /\ ctx.settings.ClientSecret = ""

\* the identity service answered 200 to the token request of ensureAccessToken
Answered200 == TokenDecided /\ tokenPath.resp.status = 200

\* the body of that answer has a non-empty access_token
HasToken ==
    /\ tokenPath.resp.body = "json"
    /\ tokenPath.resp.access_token \notin {Absent, ""}

NothingPersisted ==
    /\ saves = <<>>
    /\ pc = "exit" /\ exitCode = 1
    /\ stderr \in {"access token missing in response", "invalid character in response"}

\* C8 as stated: after a 200, a body without a non-empty access_token fails
\* the call and nothing is persisted; with a token, a numeric expires_in = E
\* and a configuration file that existed, the file holds that token and the
\* expiry (time of the refresh) + E.
C8_Original ==
    Answered200 =>
        /\ ~HasToken => NothingPersisted
        /\ (HasToken /\ tokenPath.resp.expires_in # NoExpiresIn /\ ctx.configLoaded) =>
              /\ disk.state = "ok"
              /\ disk.cfg.AccessToken = tokenPath.resp.access_token
              /\ disk.cfg.AccessTokenExpiresAt
                    = tokenPath.savedAt + tokenPath.resp.expires_in

\* C8 amended: the same, for the file case provided the write of the file
\* succeeds (a failed write is swallowed and leaves the file without the token).
C8_Refresh ==
    Answered200 =>
        /\ ~HasToken => NothingPersisted
        /\ (/\ HasToken
            /\ tokenPath.resp.expires_in # NoExpiresIn
            /\ ctx.configLoaded
            /\ saves = <<"ok">>) =>
              /\ disk.state = "ok"
              /\ disk.cfg.AccessToken = tokenPath.resp.access_token
              /\ disk.cfg.AccessTokenExpiresAt
                    = tokenPath.savedAt + tokenPath.resp.expires_in
        /\ (HasToken /\ ctx.configLoaded) => Len(saves) = 1

\* a token refreshed at a time after 0 and written to the file
C8_Witness ==
    /\ tokenPath.path = "refreshed"
    /\ ctx.configLoaded
    /\ saves = <<"ok">>
    /\ tokenPath.savedAt > 0
    /\ disk.cfg.AccessToken = "tok-new"
    /\ disk.cfg.AccessTokenExpiresAt = tokenPath.savedAt + Skew + 1

\* after a refresh: one write when a file was loaded and none otherwise, the
\* new token in hand, and the handler past ensureAccessToken whatever the
\* write did
WriteBackState ==
    tokenPath.path = "refreshed" =>
        /\ (saves # <<>>) = ctx.configLoaded
        /\ Len(saves) <= 1
        /\ ~ctx.configLoaded => disk.state = "absent"
        /\ token = tokenPath.resp.access_token
        /\ stderr # "failed to save config"
        /\ pc = "exit" => Len(calls) >= 2

\* the step of ensureAccessToken: without a file nothing is written and none
\* is created; with a file a refresh writes, and nothing else does
WriteBackStep ==
    pc = "ensureAccessToken" =>
        /\ disk.state = "absent" => (disk' = disk /\ saves' = saves)
        /\ disk.state = "ok" => ((saves' # saves) = (tokenPath'.path = "refreshed"))
        /\ saves' = saves => disk' = disk

\* C9: a refreshed token is written back exactly when a configuration file
\* existed when the invocation loaded it, no file is created when there was
\* none, and a failed write does not fail the call: the new token is returned
\* and the handler goes on to its next call.
C9_WriteBack == [][WriteBackStep]_vars /\ []WriteBackState

\* the write failed and the command succeeded with the new token
C9_Witness ==
    /\ tokenPath.path = "refreshed"
    /\ saves = <<"truncated">>
    /\ disk.state = "corrupt"
    /\ token = "tok-new"
    /\ pc = "exit" /\ exitCode = 0

\* the environment the three sources give, "" when none sets it
GivenEnv ==
    IF cliCfg.Env # "" THEN cliCfg.Env
    ELSE IF envCfg.Env # "" THEN envCfg.Env
    ELSE cfg.Env

HandlerRuns == pc \notin {"start", "exit"} \/ cmd # ""

\* C10: a handler runs only with the environment staging or production: it is
\* staging when no source sets one, and with any other value than these two
\* run() ends with exit code 2 and its message and no handler runs.
C10_Environment ==
    /\ HandlerRuns => ctx.settings.Env \in {"staging", "production"}
    /\ (HandlerRuns /\ GivenEnv = "") => ctx.settings.Env = "staging"
    /\ (HandlerRuns /\ GivenEnv # "") => ctx.settings.Env = GivenEnv
    /\ GivenEnv \notin {"", "staging", "production"} =>
          /\ pc = "exit" /\ cmd = ""
          /\ exitCode \in {1, 2}
          /\ exitCode = 2 => stderr = "invalid env (use staging or production)"

\* a handler runs with the default environment
C10_Witness ==
    /\ pc = "handleConfig"
    /\ GivenEnv = ""
    /\ disk.state = "ok"
    /\ ctx.settings.Env = "staging"

\* the hostnames of the two environments
ProductionHosts == [APIBase |-> "https://api.pingen.com",
                    IdentityBase |-> "https://identity.pingen.com"]
StagingHosts == [APIBase |-> "https://api-staging.pingen.com",
                 IdentityBase |-> "https://identity-staging.pingen.com"]

\* C11: for the API base and the identity base independently,
\* applyDefaultBases leaves a non-empty base URL as it is whatever the
\* environment, sets an empty one to the production hostname when the
\* environment is production and to the staging hostname when it is staging,
\* and after the resolution of run() both base URLs are non-empty.
C11_DefaultBases ==
    /\ ret.fn = "applyDefaultBases" =>
          \A b \in {"APIBase", "IdentityBase"} :
              /\ call.cfg[b] # "" => ret.cfg[b] = call.cfg[b]
              /\ (call.cfg[b] = "" /\ call.cfg.Env = "production") =>
                     ret.cfg[b] = ProductionHosts[b]
              /\ (call.cfg[b] = "" /\ call.cfg.Env = "staging") =>
                     ret.cfg[b] = StagingHosts[b]
    /\ (ret.fn = "run" /\ ret.res.code = -1) =>
          /\ ret.res.ctx.settings.APIBase # ""
          /\ ret.res.ctx.settings.IdentityBase # ""

\* production with an explicit API base and no identity base: the one is
\* kept, the other gets the production hostname
C11_Witness ==
    /\ ret.fn = "applyDefaultBases"
    /\ call.cfg.Env = "production"
    /\ call.cfg.APIBase = "https://api.example"
    /\ call.cfg.IdentityBase = ""
    /\ ret.cfg.APIBase = "https://api.example"
    /\ ret.cfg.IdentityBase = "https://identity.pingen.com"

\* what the client-secret file holds once surrounding white space is removed
TrimmedSecret(f) == IF f = "secret" THEN "secretfile" ELSE ""

\* the same invocation without --client-secret-file
WithoutSecretFile ==
    run(call.d, call.getenv, [call.global EXCEPT !.clientSecretFile = ""],
        call.subcommand)

\* C12: with a --client-secret-file that can be read, the client secret of the
\* settings is the trimmed contents of the file whatever the flag, the
\* environment and the persisted file give, and every other field is what it
\* is without the file; a file that cannot be read ends the invocation with
\* exit code 1 before a handler is dispatched.
C12_SecretFile ==
    (ret.fn = "run" /\ call.global.clientSecretFile # "") =>
        /\ call.global.clientSecretFile = "unreadable" =>
              (ret.res.code = 1 /\ ret.res.next = "exit")
        /\ ret.res.code = -1 =>
              /\ ret.res.ctx.settings.ClientSecret =
                     TrimmedSecret(call.global.clientSecretFile)
              /\ WithoutSecretFile.code = -1
              /\ \A f \in Fields \ {"ClientSecret"} :
                     ret.res.ctx.settings[f] = WithoutSecretFile.ctx.settings[f]

\* a secret comes from the persisted file and another from --client-secret:
\* the handler gets the one of the client-secret file
C12_Witness ==
    /\ ret.fn = "run"
    /\ ret.res.code = -1
    /\ call.global.clientSecretFile = "secret"
    /\ call.global.clientSecret = "secret-cli"
    /\ call.d.state = "ok"
    /\ call.d.cfg.ClientSecret = "secret-file"
    /\ ret.res.ctx.settings.ClientSecret = "secretfile"
    /\ ret.res.ctx.settings.ClientID = "id-cli"

\* the status codes each operation declares as success
DeclaredStatuses(op) ==
    CASE op = "CreateLetter" -> {200, 201}
      [] op = "SendLetter"   -> {200, 204}
      [] op = "UploadFile"   -> {200, 201, 204}
      [] OTHER               -> {200}

\* C13 as stated: an operation returns no error only on one of its declared
\* status codes, and for every operation a response with any other status
\* gives an APIError that carries that status and the value of the
\* request-correlation header of the response when it has one.  Violated by
\* UploadFile, whose APIError never carries the header value.
C13_StatusCodes ==
    ret.fn = "api" =>
        /\ ret.err = NoError => call.resp.status \in DeclaredStatuses(call.op)
        /\ (call.resp.status # 0 /\ call.resp.status \notin DeclaredStatuses(call.op)) =>
              /\ ret.err.api
              /\ ret.err.status = call.resp.status
              /\ ret.err.requestID = call.resp.requestID

\* the metadata arguments of the call: both given, none given, and what the
\* chosen one holds ("<unreadable>" when its file cannot be read)
BothSupplied == call.metaJSON # NoMetaJSON /\ call.metaFile # ""
NoneSupplied == call.metaJSON = NoMetaJSON /\ call.metaFile = ""
ChosenFile ==
    IF call.metaFile # "" THEN call.metaFile
    ELSE IF call.metaJSON.at THEN call.metaJSON.text ELSE ""
ChosenContent ==
    IF ChosenFile = "" THEN call.metaJSON.text
    ELSE IF ChosenFile = "missing.json" THEN "<unreadable>"
    ELSE IF ChosenFile = "meta.json" THEN "{\"a\":1}"
    ELSE IF ChosenFile = "list.json" THEN "[1,2]"
    ELSE IF ChosenFile = "null.json" THEN "null"
    ELSE ""
IsJSONObject(text) == text = "{\"a\":1}"

\* C14 as stated: both an inline value and a file is an error; neither gives
\* no metadata; otherwise the chosen content is accepted only if it is a JSON
\* object and every other content (array, scalar, null, malformed text) is an
\* error, and meta_data is in the request exactly when a JSON object was
\* supplied.  Violated by the content null, which is accepted.
C14_Metadata ==
    ret.fn = "loadJSONInput" =>
        /\ BothSupplied => ret.meta.err # ""
        /\ NoneSupplied => (ret.meta.err = "" /\ ~ret.metaData)
        /\ (~BothSupplied /\ ~NoneSupplied) =>
              ((ret.meta.err = "") = IsJSONObject(ChosenContent))
        /\ ret.metaData = (~BothSupplied /\ ~NoneSupplied /\ IsJSONObject(ChosenContent))

\* the list parameters by name, and what the arguments of the call give each:
\* "" when nothing is to be sent for it
ListKeys == {"page[number]", "page[limit]", "sort", "filter", "q", "include",
             "fields[letters]"}
Supplied(k) ==
    LET a == call.args
    IN  CASE k = "page[number]" -> IF a.page > 0 THEN ToString(a.page) ELSE ""
          [] k = "page[limit]"  -> IF a.limit > 0 THEN ToString(a.limit) ELSE ""
          [] k = "sort"         -> a.sort
          [] k = "filter"       -> IF a.filter.at
                                   THEN (IF a.filter.text = "meta.json" THEN "{\"a\":1}"
                                         ELSE IF a.filter.text = "missing.json"
                                         THEN "@missing.json" ELSE "")
                                   ELSE a.filter.text
          [] k = "q"            -> a.q
          [] k = "include"      -> a.include
          [] OTHER              -> a.fields
\* the value of the argument behind a parameter is zero or empty
ZeroArg(k) ==
    CASE k = "page[number]" -> call.args.page = 0
      [] k = "page[limit]"  -> call.args.limit = 0
      [] k = "sort"         -> call.args.sort = ""
      [] k = "filter"       -> call.args.filter = NoFilter
      [] k = "q"            -> call.args.q = ""
      [] k = "include"      -> call.args.include = ""
      [] OTHER              -> call.args.fields = ""
\* the request carries a value for k that the endpoint did not have already
SentByArgs(k) ==
    /\ k \in DOMAIN ret.url.query
    /\ k \in DOMAIN call.endpoint.query => ret.url.query[k] # call.endpoint.query[k]

\* C15: in the request of a list command a parameter is sent only when its
\* argument is non-zero (page, limit) or non-empty (the others) and never with
\* an empty value; every parameter supplied with a non-empty value is set to
\* that value, replacing the values the URL had for the same name; and the
\* parameters of the URL that are not supplied are kept as they were.
C15_ListQuery ==
    (ret.fn = "listQuery" /\ ret.sent) =>
        /\ \A k \in ListKeys : SentByArgs(k) => ~ZeroArg(k)
        /\ \A k \in DOMAIN ret.url.query :
              ret.url.query[k] = <<"">> => (/\ k \in DOMAIN call.endpoint.query
                                           /\ call.endpoint.query[k] = <<"">>)
        /\ \A k \in ListKeys :
              Supplied(k) # "" => (/\ k \in DOMAIN ret.url.query
                                  /\ ret.url.query[k] = <<Supplied(k)>>)
        /\ \A k \in DOMAIN call.endpoint.query :
              (k \notin ListKeys \/ Supplied(k) = "") =>
                  (/\ k \in DOMAIN ret.url.query
                   /\ ret.url.query[k] = call.endpoint.query[k])
        /\ DOMAIN ret.url.query \subseteq DOMAIN call.endpoint.query \cup ListKeys

\* page 2 with limit 0 and a filter file that holds nothing, on a URL that has
\* a sort and a key already: only the page is added, the rest is kept
C15_Witness ==
    /\ ret.fn = "listQuery"
    /\ ret.sent
    /\ call.args.page = 2
    /\ call.args.limit = 0
    /\ call.args.filter = [at |-> TRUE, text |-> "empty.json"]
    /\ call.args.sort = ""
    /\ "filter" \in DOMAIN ret.params
    /\ DOMAIN call.endpoint.query = {"sort", "key"}
    /\ DOMAIN ret.url.query = {"sort", "key", "page[number]"}
    /\ ret.url.query["page[number]"] = <<"2">>
    /\ ret.url.query["sort"] = <<"name", "id">>

\* the calls of SaveConfig that touched the file, in order, and the last
Effective == SelectSeq(procs.attempts, LAMBDA a : a.outcome # "unchanged")
LastWrite == Effective[Len(Effective)]

\* the fields of the record that a command assigns
Assigned(op) ==
    CASE op.cmd = "config" -> {KeyField(op.args[2])}
      [] op.cmd = "auth"   -> {"Env", "APIBase", "IdentityBase", "AccessToken",
                               "AccessTokenExpiresAt"}
      [] OTHER             -> {"AccessToken", "AccessTokenExpiresAt"}

\* the record an invocation read in its handler
Snapshot(p) ==
    IF procs.inv[p].seen.state = "ok" THEN procs.inv[p].seen.cfg ELSE ZeroConfig

SettingsFields == Fields \ {"AccessToken", "AccessTokenExpiresAt"}

OverrideToken ==
    /\ (cliCfg.AccessToken # "" \/ envCfg.AccessToken # "")
    /\ CachedToken # cfg.AccessToken

\* C18 as stated: the expiry ensureAccessToken compares against belongs to the
\* token it is about to reuse, so a token given by flag or environment, which
\* comes without an expiry, is reused and never turned down because of the
\* expiry the file holds for another token.  Violated: the expiry of the file
\* is merged under the token of the flag.
C18_ExpiryOfToken ==
    (TokenDecided /\ OverrideToken) =>
        /\ CachedExpiry = 0
        /\ tokenPath.path = "reused"

\* C19 as stated: after a refresh that was written back the persisted expiry
\* describes the persisted token: it is the time of the refresh plus the
\* expires_in of the response, or 0 (no expiry known) when the response has
\* none, and never the expiry of the previous token.  Violated when the
\* response has no expires_in: the old expiry stays beside the new token.
C19_ExpiryRefreshed ==
    (tokenPath.path = "refreshed" /\ saves = <<"ok">>) =>
        /\ disk.cfg.AccessToken = tokenPath.resp.access_token
        /\ disk.cfg.AccessTokenExpiresAt =
              IF tokenPath.resp.expires_in # NoExpiresIn
              THEN tokenPath.savedAt + tokenPath.resp.expires_in
              ELSE 0

\* the environments run() lets through, and none
PersistableEnvs == {"", "staging", "production"}

\* C20 as stated: after a config set or config unset that succeeded on a file
\* with a valid env, the persisted env is empty, staging or production, and a
\* following invocation without --env and PINGEN_ENV gets to its handler.
\* Violated by config set env with any other value.
C20_PersistedEnv ==
    (cmd = "handleConfig" /\ exitCode = 0 /\ saves = <<"ok">>
        /\ cfg.Env \in PersistableEnvs) =>
        /\ disk.cfg.Env \in PersistableEnvs
        /\ run(disk, NoEnvironment, NoFlags, "config").code = -1

====
